---------------------------- MODULE Spec2Model ----------------------------
(***************************************************************************)
(* A model of skillset (src/skillset/cli.py, src/skillset/builtins.py):    *)
(* skill discovery and linking, link removal, preset resolution, the deep  *)
(* merge of settings documents, the settings read-modify-write cycle and   *)
(* the repository synchronizer.                                            *)
(*                                                                         *)
(* A path is a sequence of segments and a segment is a sequence of         *)
(* characters, so that str.startswith(".") is computed, not assumed.       *)
(***************************************************************************)
EXTENDS Integers, Sequences, FiniteSets, TLC

VARIABLES
    IS_WINDOWS,   \* cli.py:12, the platform the program runs on
    repo,         \* files of repo_dir, relative paths, in the order the OS walk yields them
    target,       \* target_dir: entry name -> entry
    pre,          \* target_dir as it was when the last operation started
    ret,          \* what the last operation returned: [op, status, linked, found, arg]
    merge_in,     \* the arguments of a deep_merge call: [base, override, order]
    merge_out,    \* what that call returned, or raised
    presets_dir,  \* get_presets_dir(): preset name -> content of <name>.json, or Missing
    saved,        \* preset name -> the document last given to save_user_preset, or None
    preset_ret,   \* the last get_preset call: [op, name, value]
    settings,     \* content of the settings file, or Missing
    initial,      \* content of the settings file at the start
    proc,         \* the processes running merge_permissions: [pc, repo_perms, existing, merged]
    last_saver,   \* the process that wrote the settings file last, 0 when none has
    raced,        \* every process had loaded when the first one saved
    repo_exists,  \* the local copy get_repo_dir(owner, repo) exists
    sync,         \* the running clone_or_pull call: [pc, existed, calls]
    syncs,        \* clone_or_pull calls started
    apply         \* the last cmd_apply run: [op, presets, before, status, writes, merged, existing]

linkVars == <<IS_WINDOWS, repo, target, pre, ret>>
mergeVars == <<merge_in, merge_out>>
presetVars == <<presets_dir, saved, preset_ret>>
settingsVars == <<settings, initial, proc, last_saver, raced>>
syncVars == <<repo_exists, sync, syncs>>
others == <<presetVars, settingsVars, syncVars, apply>>

vars == <<linkVars, mergeVars, presetVars, settingsVars, syncVars, apply>>

-----------------------------------------------------------------------------
(* Bounds *)

\* files in a repository that find_skills alone is run on
MaxRepoFiles == 3
\* files in a repository that is linked into target_dir
MaxLinkedFiles == 2
\* elements in a sequence of a configuration document
MaxListLen == 2
\* processes that run merge_permissions on one settings file
NumProcs == 2
\* clone_or_pull calls in a run
MaxSyncs == 3
\* preset names given to one cmd_apply run
MaxApplyNames == 2

-----------------------------------------------------------------------------
(* Paths *)

Range(s) == {s[i] : i \in 1..Len(s)}

SKILL_MD == <<"S", "K", "I", "L", "L", ".", "m", "d">>
README_MD == <<"R", "E", "A", "D", "M", "E", ".", "m", "d">>
seg_foo == <<"f", "o", "o">>
seg_bar == <<"b", "a", "r">>
seg_x == <<"x">>
seg_hidden == <<".", "h">>
\* the name of repo_dir itself (get_repo_dir: the last segment is the repo name)
RepoName == <<"r", "e", "p", "o">>

\* The files a repository is drawn from, relative to repo_dir.
CandidateFiles ==
    { <<SKILL_MD>>,
      <<seg_foo, SKILL_MD>>,
      <<seg_x, seg_foo, SKILL_MD>>,
      <<seg_bar, SKILL_MD>>,
      <<seg_hidden, seg_bar, SKILL_MD>>,
      <<seg_foo, README_MD>> }

\* str.startswith(".")
startswith_dot(part) == Len(part) > 0 /\ part[1] = "."

\* Path.parent of a relative file path
parent(path) == SubSeq(path, 1, Len(path) - 1)

\* Path.name of a directory below repo_dir; repo_dir itself is the empty relative path
name(dir) == IF dir = <<>> THEN RepoName ELSE dir[Len(dir)]

\* repo_dir.glob("**/SKILL.md"): the files named SKILL.md at any depth, in walk order
glob_skill_md(files) == SelectSeq(files, LAMBDA f : f[Len(f)] = SKILL_MD)

\* directories that exist at or below repo_dir (repo_dir itself always exists)
IsPrefix(d, f) == Len(d) < Len(f) /\ SubSeq(f, 1, Len(d)) = d
dir_exists(files, d) == d = <<>> \/ \E f \in Range(files) : IsPrefix(d, f)

-----------------------------------------------------------------------------
(* find_skills, cli.py:89-98 *)

find_skills_keeps_hidden(files) ==
    LET matches == glob_skill_md(files)
        RECURSIVE loop(_, _)
        loop(i, skills) ==
            IF i > Len(matches) THEN skills
            ELSE LET skill_dir == parent(matches[i])
                 IN  IF skill_dir \notin Range(skills)
                     THEN loop(i + 1, Append(skills, skill_dir))
                     ELSE loop(i + 1, skills)
    IN  loop(1, <<>>)

find_skills(files) ==
    LET matches == glob_skill_md(files)
        RECURSIVE loop(_, _)
        loop(i, skills) ==
            IF i > Len(matches) THEN skills
            ELSE LET skill_file == matches[i]
                     skill_dir == parent(skill_file)
                 IN  IF \E k \in 1..Len(skill_file) : startswith_dot(skill_file[k])
                     THEN loop(i + 1, skills)
                     ELSE IF skill_dir \notin Range(skills)
                          THEN loop(i + 1, Append(skills, skill_dir))
                          ELSE loop(i + 1, skills)
    IN  loop(1, <<>>)

-----------------------------------------------------------------------------
(* Entries of target_dir *)

NoPath == << <<"-">> >>
Absent == [kind |-> "absent", to |-> NoPath]
File == [kind |-> "file", to |-> NoPath]
Dir == [kind |-> "dir", to |-> NoPath]            \* a plain directory with content
EmptyDir == [kind |-> "emptydir", to |-> NoPath]  \* a plain empty directory
\* a symlink (POSIX) or junction (Windows) to a directory at or below repo_dir
Link(d) == [kind |-> "link", to |-> d]

Names == {seg_foo, seg_bar, RepoName}
LinkTargets == {parent(f) : f \in {c \in CandidateFiles : c[Len(c)] = SKILL_MD}}
Entries == {Absent, File, Dir, EmptyDir} \cup {Link(d) : d \in LinkTargets}

IsPlain(e) == e.kind \in {"file", "dir", "emptydir"}

\* Path.exists(): follows links, so a dangling link does not exist
exists(files, e) ==
    CASE e.kind = "absent" -> FALSE
      [] e.kind = "link" -> dir_exists(files, e.to)
      [] OTHER -> TRUE

\* Path.is_dir(): follows links
is_dir(files, e) ==
    CASE e.kind \in {"dir", "emptydir"} -> TRUE
      [] e.kind = "link" -> dir_exists(files, e.to)
      [] OTHER -> FALSE

\* Path.is_symlink(): a junction is not a symlink
is_symlink(win, e) == ~win /\ e.kind = "link"

\* os.path.islink on Windows, as cli.py:117 reads it: true of a junction
os_path_islink(e) == e.kind = "link"

(* is_link, cli.py:114-119 *)
is_link_any_entry(win, files, e) == e.kind # "absent"

is_link(win, files, e) ==
    IF win
    THEN is_symlink(win, e) \/ (is_dir(files, e) /\ os_path_islink(e))
    ELSE is_symlink(win, e)

\* os.rmdir: removes a junction or an empty directory, fails on anything else
os_rmdir(e) ==
    IF e.kind \in {"link", "emptydir"}
    THEN [status |-> "ok", entry |-> Absent]
    ELSE [status |-> "OSError", entry |-> e]

\* Path.unlink: removes a link or a file, fails on a directory or a missing path
unlink(e) ==
    IF e.kind \in {"link", "file"}
    THEN [status |-> "ok", entry |-> Absent]
    ELSE [status |-> "OSError", entry |-> e]

(* remove_link, cli.py:122-128: the entry left at path, and how the call ended *)
remove_link(win, files, e) ==
    IF win /\ is_dir(files, e)
    THEN os_rmdir(e)
    ELSE unlink(e)

(* create_dir_link, cli.py:101-111: mklink /J and symlink_to both fail when
   link_path is occupied *)
create_dir_link(e, target_path) ==
    IF e.kind = "absent"
    THEN [status |-> "ok", entry |-> Link(target_path)]
    ELSE [status |-> "OSError", entry |-> e]

-----------------------------------------------------------------------------
(* link_skills, cli.py:131-145 *)

link_skills_no_refresh(win, files, tgt) ==
    LET skills == find_skills(files)
        RECURSIVE loop(_, _, _)
        loop(i, t, linked) ==
            IF i > Len(skills)
            THEN [status |-> "ok", target |-> t, linked |-> linked, found |-> skills]
            ELSE LET skill_dir == skills[i]
                     skill_name == name(skill_dir)
                 IN  IF t[skill_name].kind # "absent"
                     THEN loop(i + 1, t, linked)
                     ELSE loop(i + 1, [t EXCEPT ![skill_name] = Link(skill_dir)],
                               Append(linked, skill_name))
    IN  loop(1, tgt, <<>>)

link_skills_drops_link(win, files, tgt) ==
    LET skills == find_skills(files)
        RECURSIVE loop(_, _, _)
        loop(i, t, linked) ==
            IF i > Len(skills)
            THEN [status |-> "ok", target |-> t, linked |-> linked, found |-> skills]
            ELSE LET skill_dir == skills[i]
                     skill_name == name(skill_dir)
                 IN  IF is_link(win, files, t[skill_name])
                     THEN loop(i + 1, [t EXCEPT ![skill_name] = Absent], linked)
                     ELSE IF t[skill_name].kind # "absent"
                     THEN loop(i + 1, t, linked)
                     ELSE loop(i + 1, [t EXCEPT ![skill_name] = Link(skill_dir)],
                               Append(linked, skill_name))
    IN  loop(1, tgt, <<>>)

link_skills(win, files, tgt) ==
    LET skills == find_skills(files)
        RECURSIVE loop(_, _, _)
        loop(i, t, linked) ==
            IF i > Len(skills)
            THEN [status |-> "ok", target |-> t, linked |-> linked, found |-> skills]
            ELSE LET skill_dir == skills[i]
                     skill_name == name(skill_dir)
                     link_path == t[skill_name]
                 IN  IF is_link(win, files, link_path)
                     THEN LET rm == remove_link(win, files, link_path)
                              mk == create_dir_link(rm.entry, skill_dir)
                          IN  IF rm.status # "ok" \/ mk.status # "ok"
                              THEN [status |-> "OSError",
                                    target |-> [t EXCEPT ![skill_name] = mk.entry],
                                    linked |-> linked, found |-> skills]
                              ELSE loop(i + 1, [t EXCEPT ![skill_name] = mk.entry],
                                        Append(linked, skill_name))
                     ELSE IF exists(files, link_path)
                     THEN loop(i + 1, t, linked)
                     ELSE LET mk == create_dir_link(link_path, skill_dir)
                          IN  IF mk.status # "ok"
                              THEN [status |-> "OSError", target |-> t,
                                    linked |-> linked, found |-> skills]
                              ELSE loop(i + 1, [t EXCEPT ![skill_name] = mk.entry],
                                        Append(linked, skill_name))
    IN  loop(1, tgt, <<>>)

(* cmd_remove, cli.py:380-394 *)
cmd_remove(win, files, tgt, n) ==
    LET skill_path == tgt[n]
    IN  IF ~exists(files, skill_path)
        THEN [status |-> "exit1", target |-> tgt]
        ELSE IF is_link(win, files, skill_path)
        THEN LET rm == remove_link(win, files, skill_path)
             IN  [status |-> rm.status, target |-> [tgt EXCEPT ![n] = rm.entry]]
        ELSE [status |-> "exit1", target |-> tgt]

-----------------------------------------------------------------------------
(* The link manager as a state machine *)

RECURSIVE SeqsOver(_, _)
\* the sequences of at most n distinct elements of S
SeqsOver(S, n) ==
    IF n = 0 THEN {<<>>}
    ELSE LET shorter == SeqsOver(S, n - 1)
         IN  shorter \cup
             {Append(s, x) : <<s, x>> \in
                 {p \in shorter \X S : Len(p[1]) = n - 1 /\ p[2] \notin Range(p[1])}}

NoRet == [op |-> "none", status |-> "ok", linked |-> <<>>, found |-> <<>>, arg |-> NoPath]

\* the parts of the state a specification does not use stay as they start
LinkIdle ==
    /\ IS_WINDOWS = FALSE
    /\ repo = <<>>
    /\ target = [n \in Names |-> Absent]
    /\ pre = target
    /\ ret = NoRet

MergeIdle ==
    /\ merge_in = <<>>
    /\ merge_out = <<>>

PresetIdle ==
    /\ presets_dir = <<>>
    /\ saved = <<>>
    /\ preset_ret = <<>>

SettingsIdle ==
    /\ settings = <<>>
    /\ initial = <<>>
    /\ proc = <<>>
    /\ last_saver = 0
    /\ raced = FALSE

SyncIdle ==
    /\ repo_exists = FALSE
    /\ sync = <<>>
    /\ syncs = 0

ApplyIdle == apply = <<>>

LinkInit ==
    /\ MergeIdle /\ PresetIdle /\ SettingsIdle /\ SyncIdle /\ ApplyIdle
    /\ IS_WINDOWS \in BOOLEAN
    /\ repo \in SeqsOver(CandidateFiles, MaxLinkedFiles)
    /\ target \in [Names -> Entries \ {EmptyDir}]
    /\ pre = target
    /\ ret = NoRet

LinkSkills ==
    LET r == link_skills(IS_WINDOWS, repo, target)
    IN  /\ target' = r.target
        /\ pre' = target
        /\ ret' = [op |-> "link_skills", status |-> r.status, linked |-> r.linked,
                   found |-> r.found, arg |-> NoPath]
        /\ UNCHANGED <<IS_WINDOWS, repo, mergeVars, others>>

CmdRemove ==
    \E n \in Names :
        LET r == cmd_remove(IS_WINDOWS, repo, target, n)
        IN  /\ target' = r.target
            /\ pre' = target
            /\ ret' = [op |-> "cmd_remove", status |-> r.status, linked |-> <<>>,
                       found |-> <<>>, arg |-> <<n>>]
            /\ UNCHANGED <<IS_WINDOWS, repo, mergeVars, others>>

LinkNext == LinkSkills \/ CmdRemove

SpecLink == LinkInit /\ [][LinkNext]_vars

\* a direct call of remove_link on target_dir/n, whatever the entry there is
RemoveLink ==
    \E n \in Names :
        LET r == remove_link(IS_WINDOWS, repo, target[n])
        IN  /\ target' = [target EXCEPT ![n] = r.entry]
            /\ pre' = target
            /\ ret' = [op |-> "remove_link", status |-> r.status, linked |-> <<>>,
                       found |-> <<>>, arg |-> <<n>>]
            /\ UNCHANGED <<IS_WINDOWS, repo, mergeVars, others>>

\* remove_link is called on any entry, an empty plain directory included
RemoveInit ==
    /\ MergeIdle /\ PresetIdle /\ SettingsIdle /\ SyncIdle /\ ApplyIdle
    /\ IS_WINDOWS \in BOOLEAN
    /\ repo \in SeqsOver(CandidateFiles, 1)
    /\ target \in [Names -> Entries]
    /\ pre = target
    /\ ret = NoRet

RemoveNext == RemoveLink

SpecRemove == RemoveInit /\ [][RemoveNext]_vars

\* find_skills run on a repository on its own
FindInit ==
    /\ MergeIdle /\ PresetIdle /\ SettingsIdle /\ SyncIdle /\ ApplyIdle
    /\ IS_WINDOWS \in BOOLEAN
    /\ repo \in SeqsOver(CandidateFiles, MaxRepoFiles)
    /\ target = [n \in Names |-> Absent]
    /\ pre = target
    /\ ret = NoRet

FindSkills ==
    /\ ret' = [op |-> "find_skills", status |-> "ok", linked |-> <<>>,
               found |-> find_skills(repo), arg |-> NoPath]
    /\ UNCHANGED <<IS_WINDOWS, repo, target, pre, mergeVars, others>>

FindNext == FindSkills

SpecFind == FindInit /\ [][FindNext]_vars

-----------------------------------------------------------------------------
(* Claims about the link manager and the skill discoverer *)

\* C1: across link_skills and cmd_remove, an entry of target_dir that is not a
\* link (a plain file or directory) is never replaced, modified or deleted, and
\* link_skills does not report its name as linked.
C1_NonLinkUntouched ==
    \A n \in Names :
        IsPlain(pre[n]) => /\ target[n] = pre[n]
                           /\ n \notin Range(ret.linked)

\* a discovered skill met a plain entry of its name
C1_Witness ==
    /\ ret.op = "link_skills"
    /\ \E d \in Range(ret.found) : IsPlain(pre[name(d)])
    /\ \E n \in Names : n \in Range(ret.linked)

LastNamed(found, d) ==
    found[CHOOSE i \in 1..Len(found) :
            /\ name(found[i]) = name(d)
            /\ \A j \in (i + 1)..Len(found) : name(found[j]) # name(d)]

C7_RemoveLinkOnlyLinks ==
    ret.op = "remove_link" =>
        LET e == pre[ret.arg[1]]
        IN  IF e.kind = "link"
            THEN ret.status = "ok" /\ target = [pre EXCEPT ![ret.arg[1]] = Absent]
            ELSE ret.status # "ok" /\ target = pre

\* the directories that directly hold SKILL.md by a path without a hidden segment
ManifestDirs(files) ==
    {parent(f) : f \in {g \in Range(files) :
        /\ g[Len(g)] = SKILL_MD
        /\ \A k \in 1..Len(g) : ~startswith_dot(g[k])}}

\* C10: find_skills returns exactly the directories at or below repo_dir that
\* directly contain SKILL.md by a path free of dot-prefixed segments, each once.
C10_FindSkillsExact ==
    ret.op = "find_skills" =>
        /\ Range(ret.found) = ManifestDirs(repo)
        /\ Cardinality(Range(ret.found)) = Len(ret.found)

\* two skills found, at different depths, beside a manifest under a hidden segment
C10_Witness ==
    /\ ret.op = "find_skills"
    /\ Len(ret.found) = 2
    /\ \E d, e \in Range(ret.found) : Len(d) # Len(e)
    /\ \E f \in Range(repo) : f[Len(f)] = SKILL_MD /\ f[1] = seg_hidden

-----------------------------------------------------------------------------
(* Configuration documents: the values json.loads yields.  A value is tagged
   with its Python type, which is what isinstance reads. *)

Str(x) == [t |-> "str", v |-> x]
Num(x) == [t |-> "int", v |-> x]
List(xs) == [t |-> "list", v |-> xs]
Dict(f) == [t |-> "dict", v |-> f]
EmptyDict == Dict(<<>>)
\* {k: val}
Dict1(k, val) == Dict(k :> val)

isinstance(x, type) == x.t = type

\* what a call that raised leaves instead of a value
TypeError == [t |-> "TypeError", v |-> <<>>]

GIT == Str("Bash(git *)")
NPM == Str("Bash(npm *)")
Scalars == {GIT, NPM, Num(1)}

\* the orders in which a Python set of scalars can be iterated (the order depends
\* on the hashes, which PYTHONHASHSEED changes from process to process)
SetOrders == {o \in SeqsOver(Scalars, Cardinality(Scalars)) : Len(o) = Cardinality(Scalars)}

RECURSIVE ListsOver(_, _)
\* the sequences of at most n elements of S, repetitions allowed
ListsOver(S, n) ==
    IF n = 0 THEN {<<>>}
    ELSE LET shorter == ListsOver(S, n - 1)
         IN  shorter \cup {Append(xs, x) : <<xs, x>> \in {p \in shorter \X S : Len(p[1]) = n - 1}}

\* the sequences of documents: scalars and, unhashable, a mapping
ListElements == Scalars \cup {EmptyDict}
Lists == {List(xs) : xs \in ListsOver(ListElements, MaxListLen)}
\* {"allow": ...} and {}
AllowDicts == {EmptyDict} \cup {Dict1("allow", x) : x \in Scalars \cup Lists}
\* the documents deep_merge is applied to
Documents ==
    {EmptyDict}
        \cup {Dict1("permissions", x) : x \in AllowDicts \cup {GIT}}
        \cup {Dict1("allow", x) : x \in Scalars \cup Lists}

\* hash(x): dict and list are unhashable
hashable(x) == ~isinstance(x, "dict") /\ ~isinstance(x, "list")

(* list(set(xs)), cli.py:199: raises on an unhashable element; else the distinct
   elements in the iteration order of the set *)
list_set(xs, order) ==
    IF \E i \in 1..Len(xs) : ~hashable(xs[i])
    THEN TypeError
    ELSE List(SelectSeq(order, LAMBDA x : x \in Range(xs)))

(* deep_merge, cli.py:192-202 *)
RECURSIVE deep_merge(_, _, _)
deep_merge(base, override, order) ==
    LET item(key) ==
            LET value == override.v[key]
            IN  IF key \in DOMAIN base.v /\ isinstance(base.v[key], "dict")
                                          /\ isinstance(value, "dict")
                THEN deep_merge(base.v[key], value, order)
                ELSE IF key \in DOMAIN base.v /\ isinstance(base.v[key], "list")
                                               /\ isinstance(value, "list")
                THEN list_set(base.v[key].v \o value.v, order)
                ELSE value
        \* result = base.copy(), then result[key] is set for each key of override
        result == [key \in DOMAIN override.v |-> item(key)] @@ base.v
    IN  IF \E key \in DOMAIN override.v : result[key] = TypeError
        THEN TypeError
        ELSE Dict(result)

-----------------------------------------------------------------------------
(* deep_merge applied to a pair of documents *)

MergeInit ==
    /\ LinkIdle /\ PresetIdle /\ SettingsIdle /\ SyncIdle /\ ApplyIdle
    /\ merge_in \in [base : Documents, override : Documents, order : SetOrders]
    /\ merge_out = <<>>

DeepMerge ==
    /\ merge_out = <<>>
    /\ merge_out' = deep_merge(merge_in.base, merge_in.override, merge_in.order)
    /\ UNCHANGED <<linkVars, merge_in, others>>

MergeNext == DeepMerge

SpecMerge == MergeInit /\ [][MergeNext]_vars

\* the pairs of sequences that a merge of base and override unites, with the
\* merged value of each: at the top level or below "permissions"
MergedKeys ==
    LET b == merge_in.base.v
        o == merge_in.override.v
    IN  {k \in DOMAIN b \cap DOMAIN o :
            \/ isinstance(b[k], "list") /\ isinstance(o[k], "list")
            \/ /\ isinstance(b[k], "dict") /\ isinstance(o[k], "dict")
               /\ \E j \in DOMAIN b[k].v \cap DOMAIN o[k].v :
                     isinstance(b[k].v[j], "list") /\ isinstance(o[k].v[j], "list")}

\* merged holds the elements of xs and of ys, each once
UnionOf(m) ==
    /\ isinstance(m[3], "list")
    /\ Range(m[3].v) = Range(m[1]) \cup Range(m[2])
    /\ Cardinality(Range(m[3].v)) = Len(m[3].v)

MergedSequences ==
    LET b == merge_in.base.v
        o == merge_in.override.v
        top == {k \in DOMAIN b \cap DOMAIN o :
                    isinstance(b[k], "list") /\ isinstance(o[k], "list")}
        sub == {k \in DOMAIN b \cap DOMAIN o :
                    isinstance(b[k], "dict") /\ isinstance(o[k], "dict")}
    IN  {<<b[k].v, o[k].v, merge_out.v[k]>> : k \in top}
        \cup UNION {
               {<<b[k].v[j].v, o[k].v[j].v, merge_out.v[k].v[j]>> :
                  j \in {i \in DOMAIN b[k].v \cap DOMAIN o[k].v :
                           isinstance(b[k].v[i], "list") /\ isinstance(o[k].v[i], "list")}}
               : k \in sub}

\* C5 as stated: where both operands hold a sequence under a key, deep_merge
\* yields a document whose sequence under that key holds every element of either
\* sequence once and nothing else.
C5_SequencesUnite ==
    (merge_out # <<>> /\ MergedKeys # {}) =>
        /\ isinstance(merge_out, "dict")
        /\ \A m \in MergedSequences : UnionOf(m)

\* The same for sequences of hashable elements, which list(set(...)) accepts.
C5_HashableSequencesUnite ==
    (merge_out # <<>> /\ merge_out # TypeError) =>
        \A m \in MergedSequences : UnionOf(m)

\* two sequences below "permissions" that share an element and each hold one the
\* other lacks were merged
C5_Witness ==
    /\ merge_out # <<>> /\ merge_out # TypeError
    /\ \E m \in MergedSequences :
          /\ Range(m[1]) \cap Range(m[2]) # {}
          /\ Range(m[1]) \ Range(m[2]) # {}
          /\ Range(m[2]) \ Range(m[1]) # {}
    /\ "permissions" \in DOMAIN merge_out.v

\* C6 as stated: deep_merge returns a document for every pair of documents.
C6_DeepMergeTotal ==
    merge_out # <<>> => isinstance(merge_out, "dict")

-----------------------------------------------------------------------------
(* Files holding a JSON document.  json.dumps followed by json.loads gives back
   the document it was given (string keys, JSON values), so a file's content is
   held as the document it encodes. *)

Missing == [t |-> "missing", v |-> <<>>]
None == [t |-> "None", v |-> <<>>]

json_dumps(doc) == doc
json_loads(text) == text

\* bool(x), as "if x:" and "if not x:" read a value
truthy(x) ==
    CASE isinstance(x, "None") -> FALSE
      [] isinstance(x, "dict") -> DOMAIN x.v # {}
      [] isinstance(x, "list") -> Len(x.v) > 0
      [] isinstance(x, "int") -> x.v # 0
      [] OTHER -> TRUE

-----------------------------------------------------------------------------
(* Presets: builtins.py:3-69 and cli.py:216-238 *)

Permissions(allow) == Dict1("permissions", Dict1("allow", List(allow)))

BUILTIN_PRESETS ==
    [developer |-> Permissions(<<Str("Bash(git *)"), Str("Bash(npm *)"), Str("Bash(npx *)"),
                                 Str("Bash(yarn *)"), Str("Bash(pnpm *)"), Str("Bash(uv *)"),
                                 Str("Bash(pip *)"), Str("Bash(python *)"), Str("Bash(node *)"),
                                 Str("Bash(make *)"), Str("Bash(cargo *)"), Str("Bash(go *)")>>),
     git |-> Permissions(<<Str("Bash(git *)"), Str("Bash(gh *)")>>),
     node |-> Permissions(<<Str("Bash(npm *)"), Str("Bash(npx *)"), Str("Bash(yarn *)"),
                            Str("Bash(pnpm *)"), Str("Bash(node *)")>>),
     python |-> Permissions(<<Str("Bash(uv *)"), Str("Bash(pip *)"), Str("Bash(python *)"),
                              Str("Bash(pytest *)"), Str("Bash(ruff *)")>>),
     docker |-> Permissions(<<Str("Bash(docker *)"), Str("Bash(docker-compose *)")>>),
     k8s |-> Permissions(<<Str("Bash(kubectl *)"), Str("Bash(helm *)")>>)]

\* BUILTIN_PRESETS.get(name)
builtin_get(preset_name) ==
    IF preset_name \in DOMAIN BUILTIN_PRESETS THEN BUILTIN_PRESETS[preset_name] ELSE None

\* the names presets are saved and asked for under; "custom" has no built-in
PresetNames == {"developer", "git", "custom"}
\* the documents given to save_user_preset
PresetDocuments == {EmptyDict, Permissions(<<NPM>>), Dict1("model", Str("opus"))}

(* load_user_preset, cli.py:216-221 *)
load_user_preset(dir, preset_name) ==
    IF dir[preset_name] # Missing THEN json_loads(dir[preset_name]) ELSE None

(* save_user_preset, cli.py:224-230: the presets directory after the call *)
save_user_preset(dir, preset_name, doc) ==
    [dir EXCEPT ![preset_name] = json_dumps(doc)]

(* get_preset, cli.py:233-238 *)
get_preset(dir, preset_name) ==
    LET user_preset == load_user_preset(dir, preset_name)
    IN  IF truthy(user_preset) THEN user_preset ELSE builtin_get(preset_name)

NoPresetRet == [op |-> "none", name |-> "", value |-> None]

PresetInit ==
    /\ LinkIdle /\ MergeIdle /\ SettingsIdle /\ SyncIdle /\ ApplyIdle
    /\ presets_dir = [n \in PresetNames |-> Missing]
    /\ saved = [n \in PresetNames |-> None]
    /\ preset_ret = NoPresetRet

SaveUserPreset ==
    \E n \in PresetNames, doc \in PresetDocuments :
        /\ presets_dir' = save_user_preset(presets_dir, n, doc)
        /\ saved' = [saved EXCEPT ![n] = doc]
        /\ preset_ret' = [op |-> "save_user_preset", name |-> n, value |-> doc]
        /\ UNCHANGED <<apply, linkVars, mergeVars, settingsVars, syncVars>>

GetPreset ==
    \E n \in PresetNames :
        /\ preset_ret' = [op |-> "get_preset", name |-> n,
                          value |-> get_preset(presets_dir, n)]
        /\ UNCHANGED <<apply, linkVars, mergeVars, settingsVars, syncVars, presets_dir, saved>>

PresetNext == SaveUserPreset \/ GetPreset

SpecPreset == PresetInit /\ [][PresetNext]_vars

\* C4 as stated: get_preset(name) returns the document last saved under name by
\* save_user_preset, whatever the document; with none saved it returns the
\* built-in preset of that name, or not-found.
C4_PresetResolution ==
    preset_ret.op = "get_preset" =>
        preset_ret.value =
            IF saved[preset_ret.name] # None
            THEN saved[preset_ret.name]
            ELSE builtin_get(preset_ret.name)

-----------------------------------------------------------------------------
(* The settings file: cli.py:148-158, 161-167 and 205-213 *)

(* load_settings, cli.py:148-152 *)
load_settings_ignores_file(file) == EmptyDict

load_settings(file) == IF file # Missing THEN json_loads(file) ELSE EmptyDict

(* save_settings, cli.py:155-158: the content of the file after the call *)
save_settings(doc) == json_dumps(doc)

\* what find_repo_permissions (cli.py:161-167) returns for the repositories the
\* processes add: None when the repository has no permissions file
RepoPermissions ==
    {None, EmptyDict, Permissions(<<GIT>>), Permissions(<<NPM>>),
     Dict1("allow", List(<<EmptyDict>>))}

\* what the settings file holds at the start
InitialSettings == {Missing, Permissions(<<NPM, Num(1)>>), Dict1("allow", List(<<NPM>>))}

Procs == 1..NumProcs

SettingsInit ==
    /\ LinkIdle /\ MergeIdle /\ PresetIdle /\ SyncIdle /\ ApplyIdle
    /\ settings \in InitialSettings
    /\ initial = settings
    /\ proc \in [Procs -> {[pc |-> "start", repo_perms |-> r, existing |-> None,
                            merged |-> None] : r \in RepoPermissions}]
    /\ last_saver = 0
    /\ raced = FALSE

(* merge_permissions, cli.py:207-210: nothing to merge, or the settings are read *)
MergeLoad(p) ==
    /\ proc[p].pc = "start"
    /\ proc' = [proc EXCEPT ![p] =
                  IF ~truthy(proc[p].repo_perms)
                  THEN [@ EXCEPT !.pc = "returned"]
                  ELSE [@ EXCEPT !.pc = "loaded", !.existing = load_settings(settings)]]
    /\ UNCHANGED <<settings, initial, last_saver, raced>>
    /\ UNCHANGED <<apply, linkVars, mergeVars, presetVars, syncVars>>

(* merge_permissions, cli.py:211-213: the merge, and the write of its result *)
MergeSave(p) ==
    /\ proc[p].pc = "loaded"
    /\ \E order \in SetOrders :
         LET merged == deep_merge(proc[p].existing, proc[p].repo_perms, order)
         IN  IF merged = TypeError
             THEN /\ proc' = [proc EXCEPT ![p].pc = "raised"]
                  /\ UNCHANGED <<settings, last_saver, raced>>
             ELSE /\ proc' = [proc EXCEPT ![p].pc = "returned", ![p].merged = merged]
                  /\ settings' = save_settings(merged)
                  /\ last_saver' = p
                  /\ raced' = IF last_saver = 0
                              THEN \A q \in Procs : proc[q].pc = "loaded"
                              ELSE raced
    /\ UNCHANGED initial
    /\ UNCHANGED <<apply, linkVars, mergeVars, presetVars, syncVars>>

SettingsNext == \E p \in Procs : MergeLoad(p) \/ MergeSave(p)

SpecSettings == SettingsInit /\ [][SettingsNext]_vars

AllEnded == \A p \in Procs : proc[p].pc \in {"returned", "raised"}

\* the document the settings file stood for at the start: an absent file is the
\* empty mapping
InitialDocument == IF initial = Missing THEN EmptyDict ELSE initial

\* C8: when every process has loaded the settings before any has saved them, the
\* file ends as the document the last saving process wrote, which is the initially
\* loaded document merged with that process's override alone.
C8_LastWriterWins ==
    (proc # <<>> /\ AllEnded /\ raced) =>
        /\ settings = proc[last_saver].merged
        /\ \E order \in SetOrders :
             settings = deep_merge(InitialDocument, proc[last_saver].repo_perms, order)

\* two processes raced, and what the first added to the allow list is not in the
\* file the second left
C8_Witness ==
    /\ proc # <<>> /\ AllEnded /\ raced
    /\ \E p \in Procs :
         /\ p # last_saver
         /\ proc[p].merged # None
         /\ proc[p].merged # settings
         /\ proc[p].repo_perms \in {Permissions(<<GIT>>), Permissions(<<NPM>>)}
         /\ proc[last_saver].repo_perms \in {Permissions(<<GIT>>), Permissions(<<NPM>>)}
         /\ \E x \in Range(proc[p].merged.v["permissions"].v["allow"].v) :
               x \notin Range(settings.v["permissions"].v["allow"].v)

-----------------------------------------------------------------------------
(* clone_or_pull, cli.py:59-86 *)

\* How a git subprocess ends: its exit status, and whether its stderr holds
\* "Authentication failed".  Exit status -1 stands for subprocess.run raising
\* something other than CalledProcessError (git cannot be started).
GitOutcomes ==
    [rc : {0, 1, 128}, auth : BOOLEAN] \cup {[rc |-> -1, auth |-> FALSE]}

\* cli.py:78, the condition under which the SSH clone is tried
should_fallback_on_any_failure(out) == TRUE

should_fallback(out) == out.auth \/ out.rc = 128

SyncInit ==
    /\ LinkIdle /\ MergeIdle /\ PresetIdle /\ SettingsIdle /\ ApplyIdle
    /\ repo_exists \in BOOLEAN
    /\ sync = [pc |-> "idle", existed |-> FALSE, calls |-> <<>>]
    /\ syncs = 0

\* cli.py:61-65 and 68-70
SyncStart ==
    /\ sync.pc \in {"idle", "returned", "raised"}
    /\ syncs < MaxSyncs
    /\ syncs' = syncs + 1
    /\ sync' = [pc |-> IF repo_exists THEN "pull" ELSE "clone_https",
                existed |-> repo_exists, calls |-> <<>>]
    /\ UNCHANGED repo_exists
    /\ UNCHANGED <<apply, linkVars, mergeVars, presetVars, settingsVars>>

\* cli.py:66-67: check=True raises on a non-zero exit
GitPull ==
    /\ sync.pc = "pull"
    /\ \E out \in GitOutcomes :
         sync' = [sync EXCEPT !.calls = Append(@, [cmd |-> "pull", out |-> out]),
                              !.pc = IF out.rc = 0 THEN "returned" ELSE "raised"]
    /\ UNCHANGED <<repo_exists, syncs>>
    /\ UNCHANGED <<apply, linkVars, mergeVars, presetVars, settingsVars>>

\* cli.py:71-79 and 83-84
GitCloneHttps ==
    /\ sync.pc = "clone_https"
    /\ \E out \in GitOutcomes :
         /\ sync' = [sync EXCEPT !.calls = Append(@, [cmd |-> "clone_https", out |-> out]),
                                 !.pc = IF out.rc = 0 THEN "returned"
                                        ELSE IF out.rc # -1 /\ should_fallback(out)
                                        THEN "clone_ssh"
                                        ELSE "raised"]
         /\ repo_exists' = (out.rc = 0)
    /\ UNCHANGED syncs
    /\ UNCHANGED <<apply, linkVars, mergeVars, presetVars, settingsVars>>

\* cli.py:80-82
GitCloneSsh ==
    /\ sync.pc = "clone_ssh"
    /\ \E out \in GitOutcomes :
         /\ sync' = [sync EXCEPT !.calls = Append(@, [cmd |-> "clone_ssh", out |-> out]),
                                 !.pc = IF out.rc = 0 THEN "returned" ELSE "raised"]
         /\ repo_exists' = (out.rc = 0)
    /\ UNCHANGED syncs
    /\ UNCHANGED <<apply, linkVars, mergeVars, presetVars, settingsVars>>

SyncNext == SyncStart \/ GitPull \/ GitCloneHttps \/ GitCloneSsh

SpecSync == SyncInit /\ [][SyncNext]_vars

Cmds(calls) == [i \in 1..Len(calls) |-> calls[i].cmd]

\* C9: a clone_or_pull call on an existing copy makes one pull and nothing else,
\* and fails when the pull does; on a missing copy it makes one HTTPS clone and,
\* only when that fails with an authentication error or exit status 128, one SSH
\* clone; every other failure ends the call, which never clones more than twice.
C9_OneFallbackOnly ==
    sync # <<>> =>
        /\ Len(sync.calls) <= 2
        /\ sync.existed => Cmds(sync.calls) \in {<<>>, <<"pull">>}
        /\ ~sync.existed =>
              Cmds(sync.calls) \in {<<>>, <<"clone_https">>, <<"clone_https", "clone_ssh">>}
        /\ Len(sync.calls) = 2 =>
              LET first == sync.calls[1].out
              IN  first.rc \notin {0, -1} /\ (first.auth \/ first.rc = 128)
        /\ sync.pc \in {"returned", "raised"} =>
              LET last == sync.calls[Len(sync.calls)].out
              IN  /\ (sync.pc = "raised") = (last.rc # 0)
                  /\ (Len(sync.calls) = 1 /\ ~sync.existed /\ last.rc \notin {0, -1}) =>
                        ~(last.auth \/ last.rc = 128)

\* a later call of a run fell back to SSH after an exit status of 128 without the
\* authentication message
C9_Witness ==
    /\ sync # <<>>
    /\ syncs = 2
    /\ sync.pc = "returned"
    /\ Cmds(sync.calls) = <<"clone_https", "clone_ssh">>
    /\ sync.calls[1].out = [rc |-> 128, auth |-> FALSE]

-----------------------------------------------------------------------------
(* cmd_apply with preset names given, cli.py:287-306 *)

RECURSIVE Distinct(_)
\* xs without its repetitions, first occurrences kept
Distinct(xs) ==
    IF xs = <<>> THEN <<>>
    ELSE LET front == Distinct(SubSeq(xs, 1, Len(xs) - 1))
         IN  IF xs[Len(xs)] \in Range(front) THEN front ELSE Append(front, xs[Len(xs)])

AllowOf(preset_name) == BUILTIN_PRESETS[preset_name].v["permissions"].v["allow"].v

\* every scalar the documents in play hold, in one order
AllScalars ==
    Distinct(AllowOf("developer") \o AllowOf("git") \o AllowOf("node") \o AllowOf("python")
             \o AllowOf("docker") \o AllowOf("k8s") \o <<Num(1)>>)

Reverse(xs) == [i \in 1..Len(xs) |-> xs[Len(xs) + 1 - i]]

\* two of the orders in which a set of these scalars can be iterated
ApplyOrders == {AllScalars, Reverse(AllScalars)}

\* the documents found in the presets directory: those of PresetDocuments, one
\* whose sequence holds a mapping and one whose "permissions" is no mapping
ApplyPresetDocuments ==
    PresetDocuments \cup {Dict1("allow", List(<<EmptyDict>>)), Dict1("permissions", GIT)}

\* cli.py:302, preset.get("permissions", {}).get("allow", []) and len of it: whether
\* the expression can be evaluated (a str or list has no get, an int no len)
permissions_countable(preset) ==
    IF "permissions" \notin DOMAIN preset.v THEN TRUE
    ELSE LET permissions == preset.v["permissions"]
         IN  /\ isinstance(permissions, "dict")
             /\ \/ "allow" \notin DOMAIN permissions.v
                \/ ~isinstance(permissions.v["allow"], "int")

(* cmd_apply, cli.py:292-306: how the command ends, the settings file it leaves,
   the number of writes of that file, the number of names merged in memory and
   the document held in memory at the end *)
cmd_apply_saves_each_merge(presets, file, dir, order) ==
    LET RECURSIVE loop(_, _, _, _)
        loop(i, existing, f, writes) ==
            IF i > Len(presets)
            THEN [status |-> "ok", settings |-> f, writes |-> writes,
                  merged |-> i - 1, existing |-> existing]
            ELSE LET preset == get_preset(dir, presets[i])
                     merged == deep_merge(existing, preset, order)
                 IN  IF ~truthy(preset)
                     THEN [status |-> "exit1", settings |-> f, writes |-> writes,
                           merged |-> i - 1, existing |-> existing]
                     ELSE IF merged = TypeError \/ ~permissions_countable(preset)
                     THEN [status |-> "raised", settings |-> f, writes |-> writes,
                           merged |-> i - 1, existing |-> existing]
                     ELSE loop(i + 1, merged, save_settings(merged), writes + 1)
    IN  loop(1, load_settings(file), file, 0)

\* (merged is bound by a set of one element, so that it is computed once a name)
cmd_apply(presets, file, dir, order) ==
    LET RECURSIVE loop(_, _)
        loop(i, existing) ==
            IF i > Len(presets)
            THEN [status |-> "ok", settings |-> save_settings(existing), writes |-> 1,
                  merged |-> i - 1, existing |-> existing]
            ELSE LET preset == get_preset(dir, presets[i])
                 IN  IF ~truthy(preset)
                     THEN [status |-> "exit1", settings |-> file, writes |-> 0,
                           merged |-> i - 1, existing |-> existing]
                     ELSE CHOOSE r \in
                            { IF merged = TypeError
                              THEN [status |-> "raised", settings |-> file, writes |-> 0,
                                    merged |-> i - 1, existing |-> existing]
                              ELSE IF ~permissions_countable(preset)
                              THEN [status |-> "raised", settings |-> file, writes |-> 0,
                                    merged |-> i, existing |-> merged]
                              ELSE loop(i + 1, merged)
                              : merged \in {deep_merge(existing, preset, order)} } : TRUE
    IN  loop(1, load_settings(file))

ApplyInit ==
    /\ LinkIdle /\ MergeIdle /\ SyncIdle
    /\ presets_dir \in [PresetNames -> {Missing} \cup ApplyPresetDocuments]
    /\ saved = <<>>
    /\ preset_ret = <<>>
    /\ settings \in InitialSettings \cup {Permissions(<<EmptyDict>>)}
    /\ initial = settings
    /\ proc = <<>>
    /\ last_saver = 0
    /\ raced = FALSE
    /\ apply = [op |-> "none", presets |-> <<>>, before |-> settings, status |-> "ok",
                writes |-> 0, merged |-> 0, existing |-> None]

\* One command on the settings file and presets directory drawn at the start;
\* args.presets is not empty (cli.py:292) and its names may repeat.
CmdApply ==
    /\ apply.op = "none"
    /\ \E presets \in ListsOver(PresetNames, MaxApplyNames) \ {<<>>}, order \in ApplyOrders :
           \E r \in {cmd_apply(presets, settings, presets_dir, order)} :
               /\ settings' = r.settings
               /\ apply' = [op |-> "cmd_apply", presets |-> presets, before |-> settings,
                            status |-> r.status, writes |-> r.writes, merged |-> r.merged,
                            existing |-> r.existing]
               /\ UNCHANGED <<linkVars, mergeVars, presetVars, syncVars>>
               /\ UNCHANGED <<initial, proc, last_saver, raced>>

ApplyNext == CmdApply

SpecApply == ApplyInit /\ [][ApplyNext]_vars

\* a name of the list that get_preset finds no preset for
Unresolved(presets) ==
    {i \in 1..Len(presets) : get_preset(presets_dir, presets[i]) = None}

\* C11: a cmd_apply run with names given writes the settings file at most once,
\* and only after every name has resolved and been merged; a run with a name that
\* does not resolve ends in error with the file as it was, however many earlier
\* names it had merged in memory; a run that ends normally wrote once.
C11_ApplyAllOrNothing ==
    apply.op = "cmd_apply" =>
        /\ apply.writes <= 1
        /\ apply.writes = 0 => settings = apply.before
        /\ Unresolved(apply.presets) # {} =>
              /\ apply.status # "ok"
              /\ apply.writes = 0
              /\ settings = apply.before
        /\ apply.writes = 1 =>
              /\ Unresolved(apply.presets) = {}
              /\ apply.merged = Len(apply.presets)
              /\ settings = apply.existing
        /\ apply.status = "exit1" => Unresolved(apply.presets) # {}
        /\ (apply.status = "ok") = (apply.writes = 1)

\* the second name did not resolve after the first had changed the document held
\* in memory, and the file holds a document
C11_Witness ==
    /\ apply.op = "cmd_apply"
    /\ apply.status = "exit1"
    /\ apply.merged = 1
    /\ Unresolved(apply.presets) = {2}
    /\ apply.before # Missing
    /\ apply.existing # apply.before

=============================================================================
